---- MODULE Spec2Model ----
(***************************************************************************)
(* Dental Clinic Suite API: the generic CRUD handlers of main.py over the  *)
(* schema registry of schemas.py, run against a document store.            *)
(*                                                                         *)
(* A request is a handler invocation.  Every call a handler makes on the   *)
(* store (find, find_one, insert_one, update_one, delete_one) is atomic;   *)
(* a handler that makes several calls (create: insert then re-read,        *)
(* update: fetch, write, re-read) is a process whose calls interleave with *)
(* the calls of the other requests.                                        *)
(***************************************************************************)
EXTENDS Integers, Sequences, FiniteSets, TLC

(***************************************************************************)
(* Bounds of the model.                                                    *)
(***************************************************************************)
\* identifiers the store may assign in one behaviour
MaxIds == 2
\* requests that may be in flight at the same time
MaxInFlight == 2

(***************************************************************************)
(* JSON / BSON values.  Every value is a tagged tuple.                     *)
(***************************************************************************)
Null == <<"null">>
Str(s) == <<"str", s>>
Num(n) == <<"num", n>>
Bool(b) == <<"bool", b>>
List(q) == <<"list", q>>
Dict(d) == <<"dict", d>>
\* datetime.datetime / datetime.date objects
DateTime(t) == <<"datetime", t>>
Date(t) == <<"date", t>>
\* bson.ObjectId: the store's native identifier
Oid(n) == <<"oid", n>>
\* a 24-hex-digit string spelling identifier n, in lower or in upper case
HexStr(n, upper) == <<"hexstr", n, upper>>
\* a string that is not 24 hex digits, e.g. "not-a-valid-id"
BadStr == <<"badstr">>

Tag(v) == v[1]

\* the empty mapping
Empty == [x \in {} |-> Null]

\* dict.update: the keys of q override those of d
Overlay(d, q) ==
  [k \in DOMAIN d \cup DOMAIN q |-> IF k \in DOMAIN q THEN q[k] ELSE d[k]]

\* d without key k
Without(d, k) == [x \in DOMAIN d \ {k} |-> d[x]]

(***************************************************************************)
(* str.lower() on the collection names a request may carry.                *)
(***************************************************************************)
Lower(s) ==
  CASE s = "Patient" -> "patient"
    [] s = "PAYMENT" -> "payment"
    [] OTHER -> s

(***************************************************************************)
(* ObjectId(doc_id) and str(ObjectId).                                     *)
(***************************************************************************)
\* ObjectId(s) raises InvalidId unless s is 24 hex digits
IsObjectIdStr(s) == Tag(s) = "hexstr"
\* hex digits are read without regard to case
ParseObjectId(s) == Oid(s[2])
\* str(oid) prints lower-case hex
OidToStr(o) == HexStr(o[2], FALSE)

(***************************************************************************)
(* schemas.py: field specifications.                                       *)
(*   kind      the annotated type                                          *)
(*   none_ok   Optional[...]                                               *)
(*   required  Field(...) or no default                                    *)
(*   default   the default value (when not required)                       *)
(*   lits      the values of a Literal                                     *)
(*   lo, hi    ge / le; bounded says whether le is given                   *)
(***************************************************************************)
FieldSpec(kind, none_ok, required, default) ==
  [kind |-> kind, none_ok |-> none_ok, required |-> required,
   default |-> default, lits |-> {}, lo |-> 0, hi |-> 0, bounded |-> FALSE]

ReqStr == FieldSpec("str", FALSE, TRUE, Null)
OptStr == FieldSpec("str", TRUE, FALSE, Null)
OptDate == FieldSpec("date", TRUE, FALSE, Null)
ReqDateTime == FieldSpec("datetime", FALSE, TRUE, Null)
BoolTrue == FieldSpec("bool", FALSE, FALSE, Bool(TRUE))
StrList == FieldSpec("list_str", FALSE, FALSE, List(<<>>))
ReqLiteral(lits) == [FieldSpec("literal", FALSE, TRUE, Null) EXCEPT !.lits = lits]
OptLiteral(lits) == [FieldSpec("literal", TRUE, FALSE, Null) EXCEPT !.lits = lits]
DefLiteral(lits, d) ==
  [FieldSpec("literal", FALSE, FALSE, Str(d)) EXCEPT !.lits = lits]
\* float = Field(0, ge=0)
FloatGe0 == FieldSpec("float", FALSE, FALSE, Num(0))
\* float = Field(..., ge=0)
ReqFloatGe0 == FieldSpec("float", FALSE, TRUE, Null)
\* int = Field(30, ge=5, le=480)
Duration ==
  [FieldSpec("int", FALSE, FALSE, Num(30)) EXCEPT !.lo = 5, !.hi = 480,
                                                  !.bounded = TRUE]

Receptionist ==
  [name |-> ReqStr, email |-> ReqStr, phone |-> OptStr,
   shift |-> DefLiteral({"morning", "evening", "night"}, "morning"),
   is_active |-> BoolTrue]

Doctor ==
  [name |-> ReqStr, email |-> ReqStr, phone |-> OptStr,
   specialization |-> OptStr, license_no |-> OptStr, is_active |-> BoolTrue]

Patient ==
  [first_name |-> ReqStr, last_name |-> ReqStr, date_of_birth |-> OptDate,
   gender |-> OptLiteral({"male", "female", "other"}),
   email |-> OptStr, phone |-> OptStr, address |-> OptStr,
   allergies |-> StrList, medical_history |-> OptStr,
   insurance_provider |-> OptStr, insurance_member_id |-> OptStr,
   balance |-> FloatGe0, notes |-> OptStr]

Procedure ==
  [code |-> ReqStr, name |-> ReqStr, description |-> OptStr,
   default_duration_min |-> Duration, base_fee |-> ReqFloatGe0]

Appointment ==
  [patient_id |-> ReqStr, doctor_id |-> ReqStr, start_time |-> ReqDateTime,
   duration_min |-> Duration, procedure_codes |-> StrList,
   status |-> DefLiteral({"scheduled", "checked_in", "in_progress",
                          "completed", "cancelled", "no_show"}, "scheduled"),
   room |-> OptStr, notes |-> OptStr]

PaymentItem ==
  [description |-> ReqStr, amount |-> ReqFloatGe0,
   procedure_code |-> OptStr, appointment_id |-> OptStr]

\* date_time and items are filled by a default_factory: see DefaultOf
Payment ==
  [patient_id |-> ReqStr, amount |-> ReqFloatGe0,
   method |-> ReqLiteral({"cash", "card", "transfer", "insurance"}),
   status |-> DefLiteral({"pending", "paid", "refunded", "failed"}, "paid"),
   reference |-> OptStr,
   date_time |-> FieldSpec("datetime", FALSE, FALSE, Null),
   items |-> FieldSpec("list_item", FALSE, FALSE, List(<<>>)),
   notes |-> OptStr]

Report ==
  [type |-> ReqLiteral({"daily", "financial", "inventory", "custom"}),
   period_start |-> OptDate, period_end |-> OptDate,
   generated_by |-> OptStr,
   data |-> FieldSpec("dict", FALSE, FALSE, Dict(Empty))]

Consumable ==
  [name |-> ReqStr,
   unit |-> DefLiteral({"pcs", "ml", "g", "box", "pack", "bottle", "tube"},
                       "pcs"),
   stock_qty |-> FloatGe0, reorder_level |-> FloatGe0,
   cost_per_unit |-> FloatGe0, vendor |-> OptStr, sku |-> OptStr]

(***************************************************************************)
(* main.py: the registry.                                                  *)
(***************************************************************************)
MODEL_MAP ==
  [receptionist |-> Receptionist, doctor |-> Doctor, patient |-> Patient,
   procedure |-> Procedure, appointment |-> Appointment,
   payment |-> Payment, report |-> Report, consumable |-> Consumable]

(***************************************************************************)
(* pydantic (v2, lax mode): Model(kwargs).                               *)
(* Values are coerced to the annotated type where pydantic allows it;      *)
(* keyword arguments that name no field are ignored.                       *)
(***************************************************************************)
\* numeric strings, as float() / int() read them
Numerals == ("7" :> 7) @@ ("-5" :> 0 - 5)
\* ISO-8601 strings
IsoDates == {"2024-01-31"}
IsoDateTimes == {"2024-01-31T09:00:00"}

IsNumber(v) ==
  \/ Tag(v) = "num"
  \/ Tag(v) = "bool"
  \/ Tag(v) = "str" /\ v[2] \in DOMAIN Numerals

NumberOf(v) ==
  CASE Tag(v) = "num" -> v[2]
    [] Tag(v) = "bool" -> IF v[2] THEN 1 ELSE 0
    [] OTHER -> Numerals[v[2]]

InRange(spec, n) == n >= spec.lo /\ (spec.bounded => n <= spec.hi)

RECURSIVE FieldOk(_, _)
RECURSIVE Coerce(_, _)

\* every present field is acceptable, every required field is present
Validates(schema, kwargs) ==
  \A f \in DOMAIN schema :
    IF f \in DOMAIN kwargs THEN FieldOk(schema[f], kwargs[f])
    ELSE ~schema[f].required

\* default / default_factory of a field that was not supplied
DefaultOf(spec, now) ==
  IF spec.kind = "datetime" /\ ~spec.required THEN DateTime(now)
  ELSE spec.default

\* model_dump() of Model(kwargs): the declared fields only
ModelDump(schema, kwargs, now) ==
  [f \in DOMAIN schema |->
     IF f \in DOMAIN kwargs THEN Coerce(schema[f], kwargs[f])
     ELSE DefaultOf(schema[f], now)]

FieldOk(spec, v) ==
  IF Tag(v) = "null" THEN spec.none_ok
  ELSE CASE spec.kind = "str" -> Tag(v) = "str"
         [] spec.kind = "bool" ->
              Tag(v) = "bool" \/ (Tag(v) = "num" /\ v[2] \in {0, 1})
         [] spec.kind \in {"float", "int"} ->
              IsNumber(v) /\ InRange(spec, NumberOf(v))
         [] spec.kind = "literal" -> Tag(v) = "str" /\ v[2] \in spec.lits
         [] spec.kind = "date" ->
              Tag(v) = "date" \/ (Tag(v) = "str" /\ v[2] \in IsoDates)
         [] spec.kind = "datetime" ->
              \/ Tag(v) = "datetime"
              \/ Tag(v) = "num"
              \/ Tag(v) = "str" /\ v[2] \in IsoDateTimes
         [] spec.kind = "list_str" ->
              Tag(v) = "list" /\ \A i \in DOMAIN v[2] : Tag(v[2][i]) = "str"
         [] spec.kind = "list_item" ->
              /\ Tag(v) = "list"
              /\ \A i \in DOMAIN v[2] :
                   Tag(v[2][i]) = "dict" /\ Validates(PaymentItem, v[2][i][2])
         [] spec.kind = "dict" -> Tag(v) = "dict"
         [] OTHER -> FALSE

Coerce(spec, v) ==
  IF Tag(v) = "null" THEN Null
  ELSE CASE spec.kind \in {"float", "int"} -> Num(NumberOf(v))
         [] spec.kind = "bool" -> Bool(NumberOf(v) = 1)
         [] spec.kind = "date" -> IF Tag(v) = "str" THEN Date(v[2]) ELSE v
         [] spec.kind = "datetime" ->
              IF Tag(v) = "datetime" THEN v ELSE DateTime(v[2])
         [] spec.kind = "list_item" ->
              List([i \in DOMAIN v[2] |->
                      Dict(ModelDump(PaymentItem, v[2][i][2], "t0"))])
         [] OTHER -> v

(***************************************************************************)
(* The document store: per collection, its documents in insertion order.   *)
(* A document maps field names to values; "_id" holds an ObjectId.         *)
(***************************************************************************)
\* find_one found nothing (Python's None; "not doc" is true of it)
None == Empty

Ids(docs) == {docs[i]["_id"] : i \in DOMAIN docs}

\* db[c].find_one({"_id": oid})
FindOne(st, c, oid) ==
  IF oid \in Ids(st[c])
  THEN LET i == CHOOSE j \in DOMAIN st[c] : st[c][j]["_id"] = oid
       IN st[c][i]
  ELSE None

\* mutant of DeleteOne: the filter is left out, the first document goes
DeleteOneUnfiltered(st, c, oid) ==
  [store |-> [st EXCEPT ![c] = IF @ = <<>> THEN @ ELSE Tail(@)],
   deleted_count |-> IF st[c] = <<>> THEN 0 ELSE 1]

\* db[c].delete_one({"_id": oid}): store and deleted_count
DeleteOne(st, c, oid) ==
  LET docs == st[c]
      keep == SelectSeq(docs, LAMBDA d : d["_id"] # oid)
  IN [store |-> [st EXCEPT ![c] = keep],
      deleted_count |-> Len(docs) - Len(keep)]

\* mutant of UpdateOne: the payload replaces the document ("$set" left out)
UpdateOneReplace(st, c, oid, payload) ==
  LET docs == st[c]
  IN [store |-> [st EXCEPT ![c] =
                   [i \in DOMAIN docs |->
                      IF docs[i]["_id"] = oid
                      THEN Overlay(payload, [_id |-> oid])
                      ELSE docs[i]]],
      matched_count |-> IF oid \in Ids(docs) THEN 1 ELSE 0]

\* db[c].update_one({"_id": oid}, {"$set": payload}): store and matched_count.
\* No upsert: a missing document is not created.
UpdateOne(st, c, oid, payload) ==
  LET docs == st[c]
  IN [store |-> [st EXCEPT ![c] =
                   [i \in DOMAIN docs |->
                      IF docs[i]["_id"] = oid THEN Overlay(docs[i], payload)
                      ELSE docs[i]]],
      matched_count |-> IF oid \in Ids(docs) THEN 1 ELSE 0]

\* database.create_document: insert_one of the validated model's dump under a
\* fresh identifier, which it returns
CreateDocument(st, c, dump, oid) ==
  [st EXCEPT ![c] = Append(@, Overlay(dump, [_id |-> oid]))]

MinOf(a, b) == IF a <= b THEN a ELSE b

\* database.get_documents(c, {}, n): the results it may return.  With a
\* count n >= 1 the first n documents (all, when there are fewer); what a
\* count below 1 means is left to the store.
GetDocuments(st, c, n) ==
  IF n >= 1 THEN {SubSeq(st[c], 1, MinOf(n, Len(st[c])))}
  ELSE {SubSeq(st[c], 1, k) : k \in 0..Len(st[c])}

(***************************************************************************)
(* main.py: utilities.                                                     *)
(***************************************************************************)
SerializeDoc(doc) ==
  IF doc = None THEN doc
  ELSE [k \in DOMAIN doc |->
          IF Tag(doc[k]) = "oid" THEN OidToStr(doc[k]) ELSE doc[k]]

(***************************************************************************)
(* Requests and responses.                                                 *)
(***************************************************************************)
\* list_documents caps the requested limit: min(limit, 500)
MaxLimit == 500

\* an argument the operation does not take
NoArg == <<"none">>

\* raise HTTPException(status_code, detail), after `calls` calls on the store
HTTPException(status, detail, calls) ==
  [status |-> status, detail |-> detail, kind |-> "error", body |-> None,
   calls |-> calls]

\* a handler returned `body`: 200
Returned(kind, body, calls) ==
  [status |-> 200, detail |-> "", kind |-> kind, body |-> body,
   calls |-> calls]

\* the handler has not answered yet and goes on to its next call
Proceeds(calls) ==
  [status |-> 0, detail |-> "", kind |-> "pending", body |-> None,
   calls |-> calls]

\* what serialize_doc hands back: a document, or None for a missing one
ReturnedDoc(doc, calls) ==
  IF doc = None THEN Returned("null", None, calls)
  ELSE Returned("doc", SerializeDoc(doc), calls)

Supported(collection) == Lower(collection) \in DOMAIN MODEL_MAP

(***************************************************************************)
(* main.py: the handlers, call by call.  Each operator gives the response  *)
(* (and the store) one stretch of a handler produces from a store.         *)
(***************************************************************************)
\* mutant of ListCount: the cap is left out
ListCountUncapped(limit) == limit

\* list_documents, up to the get_documents call: the count it asks for
ListCount(limit) == MinOf(limit, MaxLimit)

\* list_documents, given the documents get_documents returned
list_documents(st, collection, docs) ==
  IF ~Supported(collection)
  THEN HTTPException(404, "Collection not found", 0)
  ELSE Returned("list", [i \in DOMAIN docs |-> SerializeDoc(docs[i])], 1)

\* mutant of get_document: the identifier is parsed before the registry is
\* looked at
get_document_id_first(st, collection, doc_id) ==
  IF ~IsObjectIdStr(doc_id) THEN HTTPException(400, "Invalid id", 0)
  ELSE IF ~Supported(collection)
  THEN HTTPException(404, "Collection not found", 0)
  ELSE LET doc == FindOne(st, Lower(collection), ParseObjectId(doc_id))
       IN IF doc = None THEN HTTPException(404, "Not found", 1)
          ELSE Returned("doc", SerializeDoc(doc), 1)

\* mutant of get_document: the document is returned as found, not serialized
get_document_raw(st, collection, doc_id) ==
  IF ~Supported(collection)
  THEN HTTPException(404, "Collection not found", 0)
  ELSE IF ~IsObjectIdStr(doc_id) THEN HTTPException(400, "Invalid id", 0)
  ELSE LET doc == FindOne(st, Lower(collection), ParseObjectId(doc_id))
       IN IF doc = None THEN HTTPException(404, "Not found", 1)
          ELSE Returned("doc", doc, 1)

get_document(st, collection, doc_id) ==
  IF ~Supported(collection)
  THEN HTTPException(404, "Collection not found", 0)
  ELSE IF ~IsObjectIdStr(doc_id) THEN HTTPException(400, "Invalid id", 0)
  ELSE LET doc == FindOne(st, Lower(collection), ParseObjectId(doc_id))
       IN IF doc = None THEN HTTPException(404, "Not found", 1)
          ELSE Returned("doc", SerializeDoc(doc), 1)

\* delete_document: the response and the store it leaves
delete_document(st, collection, doc_id) ==
  IF ~Supported(collection)
  THEN [resp |-> HTTPException(404, "Collection not found", 0), store |-> st]
  ELSE IF ~IsObjectIdStr(doc_id)
  THEN [resp |-> HTTPException(400, "Invalid id", 0), store |-> st]
  ELSE LET res == DeleteOne(st, Lower(collection), ParseObjectId(doc_id))
       IN IF res.deleted_count = 0
          THEN [resp |-> HTTPException(404, "Not found", 1),
                store |-> res.store]
          ELSE [resp |-> Returned("deleted",
                                  [deleted |-> Bool(TRUE), id |-> doc_id], 1),
                store |-> res.store]

\* create_new_document up to create_document: registry lookup and validation
create_validate(collection, payload) ==
  IF ~Supported(collection)
  THEN HTTPException(404, "Collection not found", 0)
  ELSE IF ~Validates(MODEL_MAP[Lower(collection)], payload)
  THEN HTTPException(422, "validation error", 0)
  ELSE Proceeds(0)

\* mutant of update_precheck: the existing record is validated, the payload
\* is not merged into it
update_precheck_unmerged(st, collection, doc_id, payload) ==
  IF ~Supported(collection)
  THEN HTTPException(404, "Collection not found", 0)
  ELSE IF ~IsObjectIdStr(doc_id)
  THEN HTTPException(422, "not a valid ObjectId", 0)
  ELSE LET existing == FindOne(st, Lower(collection), ParseObjectId(doc_id))
       IN IF existing = None THEN HTTPException(404, "Not found", 1)
          ELSE LET merged == Without(existing, "_id")
               IN IF ~Validates(MODEL_MAP[Lower(collection)], merged)
                  THEN HTTPException(422, "validation error", 1)
                  ELSE Proceeds(1)

\* mutant of update_precheck: the merged record is not validated
update_precheck_unvalidated(st, collection, doc_id, payload) ==
  IF ~Supported(collection)
  THEN HTTPException(404, "Collection not found", 0)
  ELSE IF ~IsObjectIdStr(doc_id)
  THEN HTTPException(422, "not a valid ObjectId", 0)
  ELSE LET existing == FindOne(st, Lower(collection), ParseObjectId(doc_id))
       IN IF existing = None THEN HTTPException(404, "Not found", 1)
          ELSE Proceeds(1)

\* update_document up to update_one: registry lookup, fetch, merge, validate.
\* ObjectId(doc_id) is evaluated inside the try block, whose last clause
\* turns every exception that is no HTTPException into a 422.
update_precheck(st, collection, doc_id, payload) ==
  IF ~Supported(collection)
  THEN HTTPException(404, "Collection not found", 0)
  ELSE IF ~IsObjectIdStr(doc_id)
  THEN HTTPException(422, "not a valid ObjectId", 0)
  ELSE LET existing == FindOne(st, Lower(collection), ParseObjectId(doc_id))
       IN IF existing = None THEN HTTPException(404, "Not found", 1)
          ELSE LET merged == Overlay(Without(existing, "_id"), payload)
               IN IF ~Validates(MODEL_MAP[Lower(collection)], merged)
                  THEN HTTPException(422, "validation error", 1)
                  ELSE Proceeds(1)

\* mutant of update_write: matched_count is not looked at
update_write_unchecked(st, c, oid, payload, calls) ==
  [resp |-> Proceeds(calls + 1), store |-> UpdateOne(st, c, oid, payload).store]

\* update_document: update_one and the matched_count test
update_write(st, c, oid, payload, calls) ==
  LET res == UpdateOne(st, c, oid, payload)
  IN IF res.matched_count = 0
     THEN [resp |-> HTTPException(404, "Not found", calls + 1),
           store |-> res.store]
     ELSE [resp |-> Proceeds(calls + 1), store |-> res.store]

\* create_new_document / update_document: the final find_one and serialize_doc
reread(st, c, oid, calls) == ReturnedDoc(FindOne(st, c, oid), calls + 1)

(***************************************************************************)
(* The inputs of the requests.                                             *)
(***************************************************************************)
\* "Patient" and "payment" name registered collections, "appointments" none
CollectionNames == {"Patient", "payment", "appointments"}

\* identifier 1 is spelled in upper-case hex, the others in lower case
DocIds ==
  {HexStr(n, n = 1) : n \in 1..MaxIds} \cup {BadStr}

\* JSON bodies; none names "_id"
NewPatient == [first_name |-> Str("A"), last_name |-> Str("B")]
NewPayment ==
  [patient_id |-> Str("p1"), amount |-> Num(10), method |-> Str("cash")]
Negative == [balance |-> Num(0 - 5), amount |-> Num(0 - 5)]
Partial == [balance |-> Str("7"), amount |-> Num(3)]
Payloads == {NewPatient, NewPayment, Negative, Partial}

Limits == {0 - 1, 0, 1, 2}

\* datetime.utcnow() at the time of a create
Times == {"t1"}

(***************************************************************************)
(* State.                                                                  *)
(*   store     the document store                                          *)
(*   next_id   the next identifier insert_one assigns                      *)
(*   inflight  the handlers that have made a call and not yet answered     *)
(*   last      the request answered last, with its response                *)
(***************************************************************************)
VARIABLES store, next_id, inflight, last

vars == <<store, next_id, inflight, last>>

Slots == 1..MaxInFlight

Idle ==
  [pc |-> "idle", op |-> "none", collection |-> "", doc_id |-> NoArg,
   oid |-> Oid(0), payload |-> Empty, calls |-> 0]

Busy(p) == inflight[p].pc # "idle"
Quiet == \A p \in Slots : ~Busy(p)
FreeSlot == CHOOSE p \in Slots : ~Busy(p) /\ \A q \in Slots : q < p => Busy(q)

Answered(op, collection, doc_id, payload, limit, resp) ==
  [op |-> op, collection |-> collection, doc_id |-> doc_id,
   payload |-> payload, limit |-> limit, status |-> resp.status,
   detail |-> resp.detail, kind |-> resp.kind, body |-> resp.body,
   calls |-> resp.calls]

NoResponse == Answered("none", "", NoArg, Empty, 0, Returned("null", None, 0))

EmptyStore == [c \in DOMAIN MODEL_MAP |-> <<>>]

Init ==
  /\ store = EmptyStore
  /\ next_id = 1
  /\ inflight = [p \in Slots |-> Idle]
  /\ last = NoResponse

(***************************************************************************)
(* Actions.                                                                *)
(***************************************************************************)
\* GET /api/{collection}
ListDocuments(collection, limit) ==
  /\ \E docs \in IF Supported(collection)
                 THEN GetDocuments(store, Lower(collection), ListCount(limit))
                 ELSE {<<>>} :
       last' = Answered("list", collection, NoArg, Empty, limit,
                        list_documents(store, collection, docs))
  /\ UNCHANGED <<store, next_id, inflight>>

\* GET /api/{collection}/{doc_id}
GetDocument(collection, doc_id) ==
  /\ last' = Answered("get", collection, doc_id, Empty, 0,
                      get_document(store, collection, doc_id))
  /\ UNCHANGED <<store, next_id, inflight>>

\* DELETE /api/{collection}/{doc_id}
DeleteDocument(collection, doc_id) ==
  LET r == delete_document(store, collection, doc_id)
  IN /\ store' = r.store
     /\ last' = Answered("delete", collection, doc_id, Empty, 0, r.resp)
     /\ UNCHANGED <<next_id, inflight>>

\* POST /api/{collection}: validation and create_document
CreateInsert(collection, payload, now) ==
  LET r == create_validate(collection, payload)
      c == Lower(collection)
  IN IF r.kind = "error"
     THEN /\ last' = Answered("create", collection, NoArg, payload, 0, r)
          /\ UNCHANGED <<store, next_id, inflight>>
     ELSE /\ \E q \in Slots : ~Busy(q)
          /\ next_id <= MaxIds
          /\ store' = CreateDocument(store, c,
                                     ModelDump(MODEL_MAP[c], payload, now),
                                     Oid(next_id))
          /\ next_id' = next_id + 1
          /\ inflight' =
               [inflight EXCEPT ![FreeSlot] =
                  [pc |-> "reread", op |-> "create", collection |-> collection,
                   doc_id |-> NoArg, oid |-> Oid(next_id), payload |-> payload,
                   calls |-> r.calls + 1]]
          /\ UNCHANGED last

\* PUT /api/{collection}/{doc_id}: fetch, merge, validate
UpdateFetch(collection, doc_id, payload) ==
  LET r == update_precheck(store, collection, doc_id, payload)
  IN IF r.kind = "error"
     THEN /\ last' = Answered("update", collection, doc_id, payload, 0, r)
          /\ UNCHANGED <<store, next_id, inflight>>
     ELSE /\ \E q \in Slots : ~Busy(q)
          /\ inflight' =
               [inflight EXCEPT ![FreeSlot] =
                  [pc |-> "write", op |-> "update", collection |-> collection,
                   doc_id |-> doc_id, oid |-> ParseObjectId(doc_id),
                   payload |-> payload, calls |-> r.calls]]
          /\ UNCHANGED <<store, next_id, last>>

\* PUT: update_one
UpdateWrite(p) ==
  LET h == inflight[p]
      r == update_write(store, Lower(h.collection), h.oid, h.payload, h.calls)
  IN /\ h.pc = "write"
     /\ store' = r.store
     /\ IF r.resp.kind = "error"
        THEN /\ last' = Answered("update", h.collection, h.doc_id, h.payload,
                                 0, r.resp)
             /\ inflight' = [inflight EXCEPT ![p] = Idle]
        ELSE /\ inflight' = [inflight EXCEPT ![p].pc = "reread",
                                             ![p].calls = r.resp.calls]
             /\ UNCHANGED last
     /\ UNCHANGED next_id

\* POST and PUT: the final find_one, and the answer
Reread(p) ==
  LET h == inflight[p]
  IN /\ h.pc = "reread"
     /\ last' = Answered(h.op, h.collection, h.doc_id, h.payload, 0,
                         reread(store, Lower(h.collection), h.oid, h.calls))
     /\ inflight' = [inflight EXCEPT ![p] = Idle]
     /\ UNCHANGED <<store, next_id>>

\* `last` is an observation: no handler reads it.  Under Spec it is cleared
\* before the next call is made, which changes nothing the store can do.
Forget ==
  /\ last.op # "none"
  /\ last' = NoResponse
  /\ UNCHANGED <<store, next_id, inflight>>

Forgotten == last.op = "none"

(***************************************************************************)
(* Spec: any number of requests, their calls interleaved.                  *)
(***************************************************************************)
Next ==
  \/ Forget
  \/ \E c \in CollectionNames, n \in Limits :
       Forgotten /\ ListDocuments(c, n)
  \/ \E c \in CollectionNames, d \in DocIds :
       Forgotten /\ GetDocument(c, d)
  \/ \E c \in CollectionNames, d \in DocIds :
       Forgotten /\ DeleteDocument(c, d)
  \/ \E c \in CollectionNames, b \in Payloads, t \in Times :
       Forgotten /\ CreateInsert(c, b, t)
  \/ \E c \in CollectionNames, d \in DocIds, b \in Payloads :
       Forgotten /\ UpdateFetch(c, d, b)
  \/ \E p \in Slots : Forgotten /\ UpdateWrite(p)
  \/ \E p \in Slots : Forgotten /\ Reread(p)

Spec == Init /\ [][Next]_vars

(***************************************************************************)
(* SpecSeq: one client, which sends a request when it has the answer to    *)
(* the one before, and remembers that answer.                              *)
(***************************************************************************)
\* a create body that has a numeric string and a key Patient does not declare
NewPatientLoose ==
  [first_name |-> Str("A"), last_name |-> Str("B"), balance |-> Str("7"),
   amount |-> Num(3)]

SeqPayloads == Payloads \cup {NewPatientLoose}

\* the client names registered collections and spells identifiers well
SeqCollectionNames == {"Patient", "payment"}
SeqDocIds == {HexStr(n, n = 1) : n \in 1..MaxIds}

NextSeq ==
  \/ \E c \in SeqCollectionNames, d \in SeqDocIds :
       Quiet /\ GetDocument(c, d)
  \/ \E c \in SeqCollectionNames, d \in SeqDocIds :
       Quiet /\ DeleteDocument(c, d)
  \/ \E c \in SeqCollectionNames, b \in SeqPayloads, t \in Times :
       Quiet /\ CreateInsert(c, b, t)
  \/ \E c \in SeqCollectionNames, d \in SeqDocIds, b \in SeqPayloads :
       Quiet /\ UpdateFetch(c, d, b)
  \/ \E p \in Slots : UpdateWrite(p)
  \/ \E p \in Slots : Reread(p)

SpecSeq == Init /\ [][NextSeq]_vars

(***************************************************************************)
(* SpecList: list requests against a collection of up to MaxLimit + 1      *)
(* patients.                                                               *)
(***************************************************************************)
ListSizes == {0, 1, 2, MaxLimit - 1, MaxLimit, MaxLimit + 1}

ListLimits ==
  {0 - 2, 0 - 1, 0, 1, 2, 3, MaxLimit - 1, MaxLimit, MaxLimit + 1,
   MaxLimit + 100}

\* the collection after n creates of NewPatient
Patients(n) ==
  [i \in 1..n |->
     Overlay(ModelDump(Patient, NewPatient, "t1"), [_id |-> Oid(i)])]

InitList ==
  /\ \E n \in ListSizes :
       /\ store = [EmptyStore EXCEPT !["patient"] = Patients(n)]
       /\ next_id = n + 1
  /\ inflight = [p \in Slots |-> Idle]
  /\ last = NoResponse

NextList ==
  \/ Forget
  \/ \E c \in CollectionNames, n \in ListLimits :
       Forgotten /\ ListDocuments(c, n)

SpecList == InitList /\ [][NextList]_vars

(***************************************************************************)
(* Properties.                                                             *)
(***************************************************************************)
SchemaOf(collection) == MODEL_MAP[Lower(collection)]

\* the stored document a request's path names (None when there is none)
Stored(collection, doc_id) ==
  FindOne(store, Lower(collection), ParseObjectId(doc_id))

\* the overlay of a stored document's fields with a payload fails the schema
MergeFails(collection, doc_id, payload) ==
  /\ Supported(collection)
  /\ IsObjectIdStr(doc_id)
  /\ Stored(collection, doc_id) # None
  /\ ~Validates(SchemaOf(collection),
                Overlay(Without(Stored(collection, doc_id), "_id"), payload))

\* C1: an Update of an existing record whose stored fields overlaid with the
\* payload fail the schema is answered 422 (ValidationError) on arrival, and
\* leaves the whole store as it was; it never goes on to its write.
C1_RejectedUpdateLeavesStore ==
  [][/\ (/\ last' # last
         /\ last'.op = "update"
         /\ inflight' = inflight
         /\ MergeFails(last'.collection, last'.doc_id, last'.payload))
        => (last'.status = 422 /\ store' = store)
     /\ \A p \in Slots :
          (~Busy(p) /\ inflight'[p].op = "update")
          => ~MergeFails(inflight'[p].collection, inflight'[p].doc_id,
                         inflight'[p].payload)]_vars

C1_Witness ==
  /\ last.op = "update"
  /\ last.status = 422
  /\ last.payload = Negative
  /\ MergeFails(last.collection, last.doc_id, last.payload)

\* C2: in every reachable state, under every interleaving of the calls of
\* Create, Update and Delete requests, every stored record passes the schema
\* of its collection.
C2_StoredRecordsValid ==
  \A c \in DOMAIN store :
    \A i \in DOMAIN store[c] :
      Validates(MODEL_MAP[c], Without(store[c][i], "_id"))

\* two Updates of the same record, with different payloads, have both fetched
\* it before either wrote, and both have written
C2_Witness ==
  \E p, q \in Slots :
    /\ p # q
    /\ inflight[p].op = "update" /\ inflight[p].pc = "reread"
    /\ inflight[q].op = "update" /\ inflight[q].pc = "reread"
    /\ inflight[p].oid = inflight[q].oid
    /\ Lower(inflight[p].collection) = Lower(inflight[q].collection)
    /\ inflight[p].payload = NewPayment
    /\ inflight[q].payload = Partial
    /\ FindOne(store, Lower(inflight[p].collection), inflight[p].oid) # None

\* C3: when the record is gone at the time of an Update's write (it was there
\* at the Update's fetch), the Update is answered 404 Not found and the write
\* leaves the store as it was: the record is not created again.
C3_DeletedBeforeWriteIsNotFound ==
  [][\A p \in Slots :
       (/\ inflight[p].pc = "write"
        /\ FindOne(store, Lower(inflight[p].collection), inflight[p].oid) = None
        /\ UpdateWrite(p))
       => /\ last'.op = "update"
          /\ last'.status = 404
          /\ last'.detail = "Not found"
          /\ store' = store]_vars

\* an Update was answered Not found after two calls: its fetch found the
\* record and its write did not
C3_Witness ==
  /\ last.op = "update"
  /\ last.status = 404
  /\ last.detail = "Not found"
  /\ last.calls = 2

\* C4: Get, Update and Delete of a supported collection answer a malformed
\* identifier with 400 Invalid id, and leave the store as it was.
C4_MalformedIdIsInvalidIdentifier ==
  [][(/\ last' # last
      /\ last'.op \in {"get", "update", "delete"}
      /\ Supported(last'.collection)
      /\ ~IsObjectIdStr(last'.doc_id))
     => /\ last'.status = 400
        /\ last'.detail = "Invalid id"
        /\ store' = store]_vars

\* the collection a list request names, as stored
Listed == store[Lower(last.collection)]

CollectionNotFound(r) ==
  r.status = 404 /\ r.detail = "Collection not found" /\ r.calls = 0

\* C6, as claimed: a request naming a collection that is no key of the
\* registry is answered Collection not found, with no call on the store.
C6_UnregisteredNameIsNotFound ==
  (last.op # "none" /\ last.collection \notin DOMAIN MODEL_MAP)
  => CollectionNotFound(last)

\* C6, amended: a request naming a collection whose lower-case form is no key
\* of the registry is answered Collection not found whatever its identifier
\* and payload, with no call on the store, which is left as it was.
C6_UnsupportedNameIsNotFound ==
  [][(last' # last /\ last'.op # "none" /\ ~Supported(last'.collection))
     => /\ CollectionNotFound(last')
        /\ store' = store
        /\ next_id' = next_id
        /\ inflight' = inflight]_vars

\* an Update of an unsupported collection with a malformed identifier and a
\* payload no schema accepts
C6_Witness ==
  /\ last.op = "update"
  /\ ~Supported(last.collection)
  /\ ~IsObjectIdStr(last.doc_id)
  /\ last.payload = Negative
  /\ CollectionNotFound(last)

\* the answer to the latest request is a record Create returned, and the
\* request now made is a Get of that record
GetOfCreated(c, d) ==
  /\ last.op = "create"
  /\ last.status = 200
  /\ last.kind = "doc"
  /\ Quiet
  /\ Lower(c) = Lower(last.collection)
  /\ IsObjectIdStr(d)
  /\ OidToStr(ParseObjectId(d)) = last.body["_id"]
  /\ GetDocument(c, d)

\* the fields of the payload, and the defaults of the fields of the schema the
\* payload omits
PayloadPlusDefaults(schema, payload, now) ==
  Overlay([f \in DOMAIN schema \ DOMAIN payload |-> DefaultOf(schema[f], now)],
          payload)

\* the declared fields: the payload's value as validation coerced it, or the
\* default
DeclaredFields(schema, payload, now) ==
  [f \in DOMAIN schema |->
     IF f \in DOMAIN payload THEN Coerce(schema[f], payload[f])
     ELSE DefaultOf(schema[f], now)]

\* C7, as claimed: Get right after Create returns the record Create returned,
\* whose fields other than the identifier are the payload's fields plus the
\* defaults of the fields the payload omits.
C7_GetAfterCreateIsPayloadPlusDefaults ==
  [][\A c \in CollectionNames, d \in DocIds :
       GetOfCreated(c, d)
       => /\ last'.status = 200
          /\ last'.body = last.body
          /\ \E t \in Times :
               Without(last'.body, "_id") =
                 PayloadPlusDefaults(SchemaOf(c), last.payload, t)]_vars

\* C7, amended: Get right after Create returns the record Create returned,
\* whose fields other than the identifier are the fields the schema declares,
\* each with the payload's value as validation coerced it or, where the
\* payload omits it, with its default; keys of the payload the schema does not
\* declare are not stored.
C7_GetAfterCreateIsValidatedModel ==
  [][\A c \in CollectionNames, d \in DocIds :
       GetOfCreated(c, d)
       => /\ last'.status = 200
          /\ last'.kind = "doc"
          /\ last'.body = last.body
          /\ \E t \in Times :
               Without(last'.body, "_id") =
                 DeclaredFields(SchemaOf(c), last.payload, t)]_vars

\* a Get answered with a record that is what Create stores for a payload with
\* a numeric string and an undeclared key
C7_Witness ==
  /\ last.op = "get"
  /\ last.status = 200
  /\ last.kind = "doc"
  /\ Quiet
  /\ Without(last.body, "_id") = DeclaredFields(Patient, NewPatientLoose, "t1")

\* handler h repeats the Update answered last
Repeats(h) ==
  /\ last.op = "update"
  /\ last.status = 200
  /\ last.kind = "doc"
  /\ h.op = "update"
  /\ h.payload = last.payload
  /\ Lower(h.collection) = Lower(last.collection)
  /\ h.oid = ParseObjectId(last.doc_id)

\* the write of handler h changes, in the whole store, only fields its
\* payload names
WriteKeepsOtherFields(h) ==
  \A c \in DOMAIN store :
    /\ Len(store'[c]) = Len(store[c])
    /\ \A i \in DOMAIN store[c] :
         /\ DOMAIN store[c][i] \subseteq DOMAIN store'[c][i]
         /\ \A k \in DOMAIN store[c][i] \ DOMAIN h.payload :
              store'[c][i][k] = store[c][i][k]

\* C8: an Update repeated with the same payload, no other request in between:
\* when the first was answered with an error, the second is answered with the
\* same error on arrival and nothing is written; when the first returned the
\* record, the second passes its checks, writes nothing new and returns the
\* same record.  Every write of an Update keeps the fields its payload does not
\* name.
C8_RepeatedUpdateIsIdempotent ==
  [][/\ \A c \in SeqCollectionNames, d \in SeqDocIds, b \in SeqPayloads :
          (/\ last.op = "update"
           /\ Quiet
           /\ b = last.payload
           /\ Lower(c) = Lower(last.collection)
           /\ ParseObjectId(d) = ParseObjectId(last.doc_id)
           /\ UpdateFetch(c, d, b))
          => IF last.status = 200 THEN ~Quiet' /\ last' = last
             ELSE /\ Quiet'
                  /\ last'.status = last.status
                  /\ last'.detail = last.detail
                  /\ store' = store
     /\ \A p \in Slots :
          UpdateWrite(p)
          => /\ WriteKeepsOtherFields(inflight[p])
             /\ Repeats(inflight[p]) => (store' = store /\ ~Quiet')
     /\ \A p \in Slots :
          (Repeats(inflight[p]) /\ Reread(p))
          => /\ last'.status = 200
             /\ last'.kind = "doc"
             /\ last'.body = last.body]_vars

\* the repeated Update has written and is about to read the record back
C8_Witness ==
  \E p \in Slots :
    /\ Repeats(inflight[p])
    /\ inflight[p].pc = "reread"
    /\ inflight[p].payload = Partial

\* the store without the record oid of collection c
Removed(st, c, oid) ==
  [st EXCEPT ![c] = SelectSeq(@, LAMBDA doc : doc["_id"] # oid)]

\* C9: Delete of an existing record is answered with a confirmation that
\* carries the identifier and removes that record and nothing else; a second
\* Delete of it is answered 404 Not found and changes nothing.
C9_DeleteThenNotFound ==
  [][\A c \in CollectionNames, d \in DocIds :
       (Supported(c) /\ IsObjectIdStr(d) /\ DeleteDocument(c, d))
       => /\ Stored(c, d) # None
             => /\ last'.status = 200
                /\ last'.kind = "deleted"
                /\ last'.body = [deleted |-> Bool(TRUE), id |-> d]
                /\ store' = Removed(store, Lower(c), ParseObjectId(d))
                /\ Len(store'[Lower(c)]) = Len(store[Lower(c)]) - 1
          /\ (/\ last.op = "delete"
              /\ last.status = 200
              /\ Lower(last.collection) = Lower(c)
              /\ ParseObjectId(last.doc_id) = ParseObjectId(d))
             => /\ last'.status = 404
                /\ last'.detail = "Not found"
                /\ store' = store]_vars

\* a Delete was confirmed and another record is still stored
C9_Witness ==
  /\ last.op = "delete"
  /\ last.status = 200
  /\ last.kind = "deleted"
  /\ \E c \in DOMAIN store : store[c] # <<>>

\* C10: an Update that is not answered with an error returns the record: a
\* non-empty record that carries the requested identifier and the payload's
\* values.
C10_UpdateReturnsRecord ==
  (last.op = "update" /\ last.status = 200)
  => /\ last.kind = "doc"
     /\ last.body["_id"] = OidToStr(ParseObjectId(last.doc_id))
     /\ \A k \in DOMAIN last.payload : last.body[k] = last.payload[k]

====
